---- MODULE Spec2Model ----
(***************************************************************************)
(* wildcard.py: unrolling a discontiguous IPv4 wildcard mask into the      *)
(* addresses / subnets it matches.                                         *)
(*                                                                         *)
(* A Python int is modelled by its binary expansion: the set of the        *)
(* exponents k whose 2^k is present in the number (0 is {}, 1 is {0},      *)
(* 0x80000000 is {31}).  Python ints are unbounded, so nothing is          *)
(* truncated: a left shift may produce exponents above 31.                 *)
(* A dotted-quad string is modelled by the tuple of its four octets.       *)
(***************************************************************************)
EXTENDS Integers, Sequences, FiniteSets, TLC

VARIABLES
    pc,         \* where the interpreter is: start, unroller, returned, done, error
    addr,       \* unroll's argument addr (dotted quad)
    mask,       \* unroll's argument mask (dotted quad)
    rng,        \* unroll's local rng: <<>> for None, else <<start, end>>
    ranges,     \* the list object shared by unroll and every unroller frame
    prefixes,   \* unroller's argument prefixes in the current frame
    depth,      \* number of unroller frames below the current one
    outer,      \* the ranges list as passed to the outermost unroller call
    seeds,      \* the prefixes list as passed to the outermost unroller call
    unrolled,   \* the value the outermost unroller call returned
    processed,  \* unroll's result list
    exc         \* the exception that ended the run, "" if none

vars == <<pc, addr, mask, rng, ranges, prefixes, depth, outer, seeds, unrolled, processed,
          exc>>

(***************************************************************************)
(* Python's int operators on binary expansions.                            *)
(***************************************************************************)
\* an int literal or small int value n >= 0 as a binary expansion
Long(n) == {k \in 0..30 : (n \div (2^k)) % 2 = 1}

And(a, b) == a \cap b

Or(a, b) == a \cup b

Shl(a, n) == {k + n : k \in a}

Shr(a, n) == {k - n : k \in {j \in a : j >= n}}

\* None; falsy, like 0
None == 0

\* truth value of an int-or-None
Truthy(x) == x # None /\ x # 0

(***************************************************************************)
(* The functions of wildcard.py.                                           *)
(***************************************************************************)
\* the value of mask after the rounds 0..n-1 of the loop
\*     mask = (mask >> 1) | 0x80000000
\* round i ORs in 0x80000000, which the n-1-i later rounds shift right
mask_loop(n) == UNION {Shr({31}, n - 1 - i) : i \in 0..(n - 1)}

\* mutant: range(0, slash + 1)
mask_from_slash_off(slash) == mask_loop(slash + 1)

mask_from_slash(slash) == mask_loop(slash)

\* mutant: struct.unpack("<L", ...), the octets in little-endian order
ip2long_le(ip) ==
    Or(Or(Shl(Long(ip[4]), 24), Shl(Long(ip[3]), 16)),
       Or(Shl(Long(ip[2]), 8), Long(ip[1])))

ip2long(ip) ==
    Or(Or(Shl(Long(ip[1]), 24), Shl(Long(ip[2]), 16)),
       Or(Shl(Long(ip[3]), 8), Long(ip[4])))

\* mutant: 1 << (31 - bit)
is_bit_on_off(number, bit) == And(number, Shl(Long(1), 31 - bit)) # {}

is_bit_on(number, bit) == And(number, Shl(Long(1), 32 - bit)) # {}

\* one round of `for bit in range(1,33)`: the locals after the body has run
\* for st.bit, with the loop variable moved on
scan_step(m, st) ==
    IF is_bit_on(m, st.bit)
    THEN IF Truthy(st.start)
         THEN [st EXCEPT !.bit = @ + 1, !.end = st.bit]
         ELSE [st EXCEPT !.bit = @ + 1, !.start = st.bit, !.end = st.bit]
    ELSE IF Truthy(st.end)
         THEN [bit |-> st.bit + 1, start |-> None, end |-> None,
               ranges |-> Append(st.ranges, <<st.start, st.end>>)]
         ELSE [st EXCEPT !.bit = @ + 1]

\* the locals when the loop is left
RECURSIVE scan_bits(_, _)
scan_bits(m, st) ==
    IF st.bit >= 33 THEN st ELSE scan_bits(m, scan_step(m, st))

contiguous_bits(m) ==
    LET st == scan_bits(m, [bit |-> 1, start |-> None, end |-> None, ranges |-> <<>>])
    IN  IF Truthy(st.end) THEN Append(st.ranges, <<st.start, st.end>>) ELSE st.ranges

\* mutant: the bits of the range are not cleared in the prefix
candidate_noclear(prefix, start, end, field) ==
    Or(prefix, Shl(Long(field), 32 - end))

\* mutant: field << (31 - end)
candidate_shift(prefix, start, end, field) ==
    Or(And(prefix, Or(mask_from_slash(start - 1), Shr(mask_from_slash(32), end))),
       Shl(Long(field), 31 - end))

\* the value appended for one prefix and one field
candidate(prefix, start, end, field) ==
    LET m == Or(mask_from_slash(start - 1), Shr(mask_from_slash(32), end))
    IN  Or(And(prefix, m), Shl(Long(field), 32 - end))

\* for field in range(0, 2**bits): the values appended for one prefix
field_loop(prefix, start, end, bits) ==
    [f \in 1..(2^bits) |-> candidate(prefix, start, end, f - 1)]

\* for prefix in prefixes: the values appended, prefix after prefix
prefix_loop(ps, start, end) ==
    LET bits == end - start + 1
        rows == [i \in 1..Len(ps) |-> field_loop(ps[i], start, end, bits)]
    IN  [k \in 1..(Len(ps) * 2^bits) |->
            rows[((k - 1) \div (2^bits)) + 1][((k - 1) % (2^bits)) + 1]]

\* mutant: the two loops exchanged (for field ...: for prefix ...)
expand_field_major(r, ps) ==
    [k \in 1..(Len(ps) * 2^(r[2] - r[1] + 1)) |->
        Or(And(ps[((k - 1) % Len(ps)) + 1],
               Or(mask_from_slash(r[1] - 1), Shr(mask_from_slash(32), r[2]))),
           Shl(Long((k - 1) \div Len(ps)), 32 - r[2]))]

\* the list unrolled that one unroller frame builds from the head range
expand(r, ps) == prefix_loop(ps, r[1], r[2])

\* mutant: ranges.pop() in place of ranges.pop(0)
pop_head_last(rs) == SubSeq(rs, 1, Len(rs) - 1)

\* ranges.pop(0): the list that is left
pop_head(rs) == Tail(rs)

\* ranges.pop(): the list that is left
pop_last(rs) == SubSeq(rs, 1, Len(rs) - 1)

\* mutant: ranges[0][1] == 32
is_trailing_first(found) == found[1][2] = 32

\* ranges[-1][1] == 32
is_trailing(found) == found[Len(found)][2] = 32

\* ipaddress.IPv4Network: rejects an address of more than 32 bits and a
\* network address with host bits set
IPv4NetworkRaises(address, prefixlen) ==
    \/ \E k \in address : k >= 32
    \/ And(address, Shr(mask_from_slash(32), prefixlen)) # {}

IPv4Network(address, prefixlen) ==
    [network_address |-> address, prefixlen |-> prefixlen]

\* mutant: prefix length start in place of start - 1
network_of_long(address, r) ==
    IF r # <<>>
    THEN [network_address |-> address \cap {k \in 0..31 : k >= 32 - r[1]}, prefixlen |-> r[1]]
    ELSE [network_address |-> address, prefixlen |-> 32]

\* the object unroll appends for one unrolled address
network_of(address, r) ==
    IF r # <<>>
    THEN IPv4Network(And(address, mask_from_slash(r[1] - 1)), r[1] - 1)
    ELSE IPv4Network(address, 32)

(***************************************************************************)
(* Inputs.                                                                 *)
(***************************************************************************)
\* bit positions (prefix-length style, 1 is the top bit) the masks are built from
ProbeBits == <<16, 32, 17, 31, 1, 2, 15, 30>>

NProbe == 6

ProbeSet == {ProbeBits[i] : i \in 1..NProbe}

\* the octet (1..4) of the dotted quad whose set bit positions are S
OctetOf(S, i) ==
    LET w(j) == IF 8 * (i - 1) + j \in S THEN 2^(8 - j) ELSE 0
    IN  w(1) + w(2) + w(3) + w(4) + w(5) + w(6) + w(7) + w(8)

QuadOf(S) == <<OctetOf(S, 1), OctetOf(S, 2), OctetOf(S, 3), OctetOf(S, 4)>>

\* every mask over the probed positions, the all-ones mask, and two masks of the
\* script's own calls
Masks ==
    {QuadOf(S) : S \in SUBSET ProbeSet}
        \cup {<<255, 255, 255, 255>>, <<240, 0, 0, 2>>, <<0, 240, 0, 3>>}

Addrs == {<<10, 12, 14, 16>>, <<10, 0, 1, 64>>, <<0, 0, 0, 0>>, <<255, 255, 255, 255>>}

(***************************************************************************)
(* unroll(addr, mask)                                                      *)
(***************************************************************************)
Init ==
    /\ pc = "start"
    /\ addr \in Addrs
    /\ mask \in Masks
    /\ rng = <<>>
    /\ ranges = <<>>
    /\ prefixes = <<>>
    /\ depth = 0
    /\ outer = <<>>
    /\ seeds = <<>>
    /\ unrolled = <<>>
    /\ processed = <<>>
    /\ exc = ""

\* unroll up to the call of unroller; ranges[-1] raises on an empty list
UnrollSetup ==
    /\ pc = "start"
    /\ LET found == contiguous_bits(ip2long(mask)) IN
       IF found = <<>>
       THEN /\ pc' = "error"
            /\ exc' = "IndexError"
            /\ UNCHANGED <<rng, ranges, prefixes, outer, seeds>>
       ELSE LET trailing == is_trailing(found)
                rest == IF trailing THEN pop_last(found) ELSE found
            IN  /\ pc' = "unroller"
                /\ rng' = IF trailing THEN found[Len(found)] ELSE <<>>
                /\ ranges' = rest
                /\ outer' = rest
                /\ prefixes' = <<ip2long(addr)>>
                /\ seeds' = <<ip2long(addr)>>
                /\ exc' = ""
    /\ UNCHANGED <<addr, mask, depth, unrolled, processed>>

\* one unroller frame with ranges left: pop the head, expand, recurse
UnrollerRecurse ==
    /\ pc = "unroller"
    /\ ranges # <<>>
    /\ prefixes' = expand(Head(ranges), prefixes)
    /\ ranges' = pop_head(ranges)
    /\ depth' = depth + 1
    /\ UNCHANGED <<pc, addr, mask, rng, outer, seeds, unrolled, processed, exc>>

\* the frame with no ranges left returns prefixes, and so does every frame above
UnrollerReturn ==
    /\ pc = "unroller"
    /\ ranges = <<>>
    /\ unrolled' = prefixes
    /\ pc' = "returned"
    /\ UNCHANGED <<addr, mask, rng, ranges, prefixes, depth, outer, seeds, processed, exc>>

\* unroll after the call of unroller
UnrollFinish ==
    /\ pc = "returned"
    /\ LET nets == [i \in 1..Len(unrolled) |-> network_of(unrolled[i], rng)]
           bad == \E i \in 1..Len(nets) :
                      IPv4NetworkRaises(nets[i].network_address, nets[i].prefixlen)
       IN  IF bad
           THEN /\ pc' = "error"
                /\ exc' = "ValueError"
                /\ UNCHANGED processed
           ELSE /\ pc' = "done"
                /\ processed' = nets
                /\ UNCHANGED exc
    /\ UNCHANGED <<addr, mask, rng, ranges, prefixes, depth, outer, seeds, unrolled>>

Next == UnrollSetup \/ UnrollerRecurse \/ UnrollerReturn \/ UnrollFinish

Spec == Init /\ [][Next]_vars

(***************************************************************************)
(* unroller(ranges, prefixes) called on its own                            *)
(***************************************************************************)
TestRanges ==
    {<<1, 1>>, <<1, 2>>, <<2, 3>>, <<16, 16>>, <<16, 17>>, <<17, 17>>, <<30, 31>>, <<31, 32>>,
     <<32, 32>>}

MaxRanges == 2

RangeLists == UNION {[1..n -> TestRanges] : n \in 0..MaxRanges}

SeedLists ==
    LET a == ip2long(<<10, 12, 14, 16>>)
        b == ip2long(<<255, 255, 255, 255>>)
    IN  {<<a>>, <<b>>, <<b, a>>}

InitUnroller ==
    /\ pc = "unroller"
    /\ addr = <<0, 0, 0, 0>>
    /\ mask = <<0, 0, 0, 0>>
    /\ rng = <<>>
    /\ ranges \in RangeLists
    /\ prefixes \in SeedLists
    /\ depth = 0
    /\ outer = ranges
    /\ seeds = prefixes
    /\ unrolled = <<>>
    /\ processed = <<>>
    /\ exc = ""

NextUnroller == UnrollerRecurse \/ UnrollerReturn

\* the interpreter runs a call that can take a step
SpecUnroller == InitUnroller /\ [][NextUnroller]_vars /\ WF_vars(NextUnroller)

(***************************************************************************)
(* Vocabulary of the properties.  Bit positions are numbered prefix-length *)
(* style: position 1 is the top bit of a 32-bit word, position 32 the      *)
(* lowest.                                                                 *)
(***************************************************************************)
\* the positions of the set bits of a dotted quad, read off its octets
QuadBits(q) ==
    {b \in 1..32 : (q[((b - 1) \div 8) + 1] \div (2^(7 - ((b - 1) % 8)))) % 2 = 1}

\* whether position b is set in the number w
BitOn(w, b) == (32 - b) \in w

\* the 32-bit number with exactly the positions S set
WordOf(S) == {32 - b : b \in S}

Flip(w, S) == (w \ S) \cup (S \ w)

\* addresses around w: every combination of the probed positions flipped, and
\* every single position flipped
Near(w) ==
    {Flip(w, WordOf(S)) : S \in SUBSET ProbeSet} \cup {Flip(w, WordOf({b})) : b \in 1..32}

\* x agrees with addr on every position where the mask is 0
Matches(x) ==
    \A b \in (1..32) \ QuadBits(mask) : BitOn(x, b) <=> b \in QuadBits(addr)

\* the CIDR block of network address n and prefix length p contains x
InBlock(n, p, x) ==
    /\ \A k \in x : k <= 31
    /\ \A b \in 1..p : BitOn(x, b) <=> BitOn(n, b)

Covers(net, x) == InBlock(net.network_address, net.prefixlen, x)

\* numeric order of two numbers
Less(a, b) ==
    LET d == Flip(a, b)
    IN  d # {} /\ (CHOOSE k \in d : \A j \in d : j <= k) \in b

\* the start of the run of set bits of the mask that ends at position 32
TrailingStart ==
    CHOOSE s \in 1..32 :
        /\ \A b \in s..32 : b \in QuadBits(mask)
        /\ s > 1 => (s - 1) \notin QuadBits(mask)

RECURSIVE TotalWidth(_)
TotalWidth(rs) ==
    IF rs = <<>> THEN 0 ELSE (Head(rs)[2] - Head(rs)[1] + 1) + TotalWidth(Tail(rs))

RangeBits(r) == r[1]..r[2]

Disjoint(rs) ==
    \A i, j \in 1..Len(rs) : i # j => RangeBits(rs[i]) \cap RangeBits(rs[j]) = {}

AllRangeBits(rs) == UNION {RangeBits(rs[i]) : i \in 1..Len(rs)}

(***************************************************************************)
(* Properties.                                                             *)
(***************************************************************************)
\* C1: when unroll returns (the mask then has a set bit), every address that
\* agrees with addr wherever the mask is 0 lies in exactly one result, and an
\* address that differs from addr on a position where the mask is 0 lies in
\* none.
C1_Partition ==
    pc = "done" =>
        \A x \in Near(WordOf(QuadBits(addr))) :
            Cardinality({i \in 1..Len(processed) : Covers(processed[i], x)})
                = IF Matches(x) THEN 1 ELSE 0

C1_Witness ==
    /\ pc = "done"
    /\ Len(outer) >= 2
    /\ rng # <<>>
    /\ Len(processed) >= 4

\* C2: the result list is minimal: the block one prefix bit shorter than a
\* result of prefix length p >= 1 contains an address the mask does not match,
\* and no two results are the two halves of such a block.
C2_Minimal ==
    pc = "done" =>
        \A i \in 1..Len(processed) :
            LET n == processed[i].network_address
                p == processed[i].prefixlen
            IN  p >= 1 =>
                    /\ \E x \in Near(n) : InBlock(n, p - 1, x) /\ ~Matches(x)
                    /\ \A j \in 1..Len(processed) :
                           ~(/\ j # i
                             /\ processed[j].prefixlen = p
                             /\ InBlock(n, p - 1, processed[j].network_address))

C2_Witness ==
    /\ pc = "done"
    /\ rng # <<>>
    /\ rng[2] - rng[1] >= 1
    /\ Len(processed) >= 2

\* C3: unroll(addr, "0.0.0.0") raises nothing and returns the one host addr/32.
C3_ZeroMask ==
    (mask = <<0, 0, 0, 0>> /\ pc # "start") =>
        /\ exc = ""
        /\ pc = "done" =>
               processed = <<[network_address |-> WordOf(QuadBits(addr)), prefixlen |-> 32]>>

\* C4: contiguous_bits returns the maximal runs of set bits in ascending order:
\* 1 <= start <= end <= 32, a clear bit between consecutive ranges, the positions
\* of the ranges are exactly the set bits of the mask, and no range for mask 0.
C4_Ranges ==
    LET found == contiguous_bits(ip2long(mask))
    IN  /\ \A i \in 1..Len(found) :
               /\ Len(found[i]) = 2
               /\ 1 <= found[i][1]
               /\ found[i][1] <= found[i][2]
               /\ found[i][2] <= 32
        /\ \A i \in 1..(Len(found) - 1) : found[i][2] + 1 < found[i + 1][1]
        /\ AllRangeBits(found) = QuadBits(mask)
        /\ mask = <<0, 0, 0, 0>> => found = <<>>

C4_Witness ==
    /\ pc = "unroller"
    /\ depth = 0
    /\ Len(outer) = 2
    /\ rng # <<>>
    /\ rng[1] < rng[2]

\* C5: from one seed and disjoint ranges of total width w, unroller returns 2^w
\* pairwise distinct candidates that agree with the seed outside the ranges.
C5_Cardinality ==
    (pc = "returned" /\ Len(seeds) = 1 /\ Disjoint(outer)) =>
        /\ Len(unrolled) = 2^TotalWidth(outer)
        /\ \A i, j \in 1..Len(unrolled) : i # j => unrolled[i] # unrolled[j]
        /\ \A i \in 1..Len(unrolled) :
               \A b \in (1..32) \ AllRangeBits(outer) :
                   BitOn(unrolled[i], b) <=> BitOn(seeds[1], b)

C5_Witness ==
    /\ pc = "returned"
    /\ Len(seeds) = 1
    /\ Len(outer) = 2
    /\ Disjoint(outer)
    /\ outer[1][1] > outer[2][2]
    /\ TotalWidth(outer) = 4

\* C6: with bit 32 of the mask set and s the start of the run that ends there,
\* every result has prefix length s-1, bits s..32 zero and the bits 1..s-1 of
\* its candidate; with bit 32 clear the results are the candidates as /32
\* hosts, one per candidate in the same order.
C6_Normalize ==
    pc = "done" =>
        IF 32 \in QuadBits(mask)
        THEN \A i \in 1..Len(processed) :
                 /\ i <= Len(unrolled)
                 /\ processed[i].prefixlen = TrailingStart - 1
                 /\ \A b \in TrailingStart..32 : ~BitOn(processed[i].network_address, b)
                 /\ \A b \in 1..(TrailingStart - 1) :
                        BitOn(processed[i].network_address, b) <=> BitOn(unrolled[i], b)
        ELSE /\ Len(processed) = Len(unrolled)
             /\ \A i \in 1..Len(processed) :
                    /\ processed[i].prefixlen = 32
                    /\ processed[i].network_address = unrolled[i]

C6_Witness ==
    /\ pc = "done"
    /\ 32 \in QuadBits(mask)
    /\ 31 \in QuadBits(mask)
    /\ addr = <<255, 255, 255, 255>>
    /\ Len(processed) >= 2

\* C7 as stated: unroll("10.12.14.16", "0.1.0.0") returns 4 single hosts.
C7_FourHosts ==
    (pc = "done" /\ addr = <<10, 12, 14, 16>> /\ mask = <<0, 1, 0, 0>>) =>
        /\ Len(processed) = 4
        /\ \A i \in 1..Len(processed) : processed[i].prefixlen = 32

\* C7 amended: unroll("10.12.14.16", "0.1.0.0") returns 2 single hosts,
\* 10.12.14.16 and 10.13.14.16, because the mask wildcards one bit (bit 16).
C7_TwoHosts ==
    (pc = "done" /\ addr = <<10, 12, 14, 16>> /\ mask = <<0, 1, 0, 0>>) =>
        processed =
            <<[network_address |-> WordOf(QuadBits(<<10, 12, 14, 16>>)), prefixlen |-> 32],
              [network_address |-> WordOf(QuadBits(<<10, 13, 14, 16>>)), prefixlen |-> 32]>>

C7_Witness ==
    /\ pc = "done"
    /\ addr = <<10, 12, 14, 16>>
    /\ mask = <<0, 1, 0, 0>>
    /\ Len(processed) = 2

\* C8: one expansion step over head range (start, end) of width w turns seed
\* list S into a list of Len(S) * 2^w values; the value at index i * 2^w + f is
\* S[i] outside start..end and the w-bit number f inside start..end.
C8_Step ==
    [][(pc = "unroller" /\ ranges # <<>>) =>
          LET start == Head(ranges)[1]
              end == Head(ranges)[2]
              w == end - start + 1
          IN  /\ Len(prefixes') = Len(prefixes) * 2^w
              /\ \A i \in 0..(Len(prefixes) - 1) : \A f \in 0..(2^w - 1) :
                     LET c == prefixes'[i * 2^w + f + 1]
                     IN  /\ \A k \in c : k <= 31
                         /\ \A b \in (1..32) \ (start..end) :
                                BitOn(c, b) <=> BitOn(prefixes[i + 1], b)
                         /\ \A b \in start..end :
                                BitOn(c, b) <=> (f \div (2^(end - b))) % 2 = 1
      ]_vars

C8_Witness ==
    /\ pc = "unroller"
    /\ depth = 2
    /\ outer[2][2] - outer[2][1] = 1
    /\ Len(seeds) = 2
    /\ Len(prefixes) >= 8

\* C9: unroller terminates; every call with ranges left removes exactly the
\* head range, so the ranges are taken in input order, and after Len(ranges)
\* expansion steps the call with no ranges left returns its prefixes unchanged.
C9_Terminates ==
    /\ <>(pc = "returned")
    /\ [](pc = "unroller" => ranges = SubSeq(outer, depth + 1, Len(outer)))
    /\ [](pc = "returned" => depth = Len(outer) /\ ranges = <<>> /\ unrolled = prefixes)
    /\ [][(pc = "unroller" /\ ranges # <<>>) =>
             /\ ranges' = Tail(ranges)
             /\ depth' = depth + 1
             /\ pc' = "unroller"]_vars
    /\ [][(pc = "unroller" /\ ranges = <<>>) =>
             /\ pc' = "returned"
             /\ unrolled' = prefixes]_vars

C9_Witness ==
    /\ pc = "returned"
    /\ depth = 2
    /\ outer[1] # outer[2]
    /\ Len(unrolled) >= 4

\* C10: the results of unroll are in strictly ascending numeric order of their
\* network address.
C10_Ascending ==
    pc = "done" =>
        \A i \in 1..(Len(processed) - 1) :
            Less(processed[i].network_address, processed[i + 1].network_address)

C10_Witness ==
    /\ pc = "done"
    /\ Len(outer) >= 2
    /\ Len(processed) >= 8

====
